---- MODULE Spec2Model ----
(***************************************************************************)
(* Model of the telemetry-to-cue engine of ShellCoachingAI                 *)
(* (src/src/coach.py, src/src/zones.py, src/src/track_map.py).             *)
(*                                                                         *)
(* Units.  All quantities are integers:                                    *)
(*   latitude / longitude : the angle that subtends one metre at R_EARTH   *)
(*                          (so R_EARTH * deg2rad(.) is the identity on    *)
(*                          the unit and only cos(lat0) scales x)          *)
(*   speed in a message   : 0.1 km/h                                       *)
(*   speed_mps, opt speed : 0.1 m/s      (speed_kmh / 3.6)                 *)
(*   power, voltage, current : W, V, A                                     *)
(*   opt_power_w in zone memory : micro-watts, as stored                   *)
(*   confidence           : hundredths                                     *)
(*   timestamps and wall clock : seconds                                   *)
(* An optional value is <<>> (None) or <<v>>.                              *)
(***************************************************************************)
EXTENDS Integers, Sequences, FiniteSets, TLC

None == <<>>

Some(v) == <<v>>

IsNone(o) == o = <<>>

Val(o) == o[1]

Abs(n) == IF n < 0 THEN -n ELSE n

Max2(a, b) == IF a >= b THEN a ELSE b

Min2(a, b) == IF a <= b THEN a ELSE b

(***************************************************************************)
(* Configuration (src/src/config.py).                                      *)
(***************************************************************************)
POWER_MARGIN_W == 30

\* hundredths
CONFIDENCE_MIN == 40

BUFFER_SECONDS == 20

\* hundredths: 0.05
SPEED_MARGIN_PCT == 5

STOP_APPROACH_M == 80

MIN_SECONDS_BETWEEN_SAME_CUE == 2

CUE_COOLDOWN_BY_ZONE == 3

CUE_COOLDOWN_BY_TYPE == 2

ZONE_HYSTERESIS_M == 5

SPEED_MIN_KMH == 0

SPEED_MAX_KMH == 200

POWER_MIN_W == -1000

POWER_MAX_W == 5000

CURRENT_MIN_A == -100

CURRENT_MAX_A == 200

VOLTAGE_MIN_V == 0

VOLTAGE_MAX_V == 500

(***************************************************************************)
(* cfg["SMOOTH_WIN"] and cfg["MIN_SAMPLES_FOR_CUE"] are constructor        *)
(* arguments of Coach (cfg); the model instantiates the Coach with a       *)
(* scaled-down window and cold-start count.  MaxBuf caps the buffer        *)
(* length, MaxNow the wall clock.                                          *)
(***************************************************************************)
SMOOTH_WIN == 2

MIN_SAMPLES_FOR_CUE == 2

MaxBuf == 3

WallClockStart == 100

MaxElapsed == 3

\* how far from a vertex a projected point is taken
ProbeReach == 2

(***************************************************************************)
(* Artifacts: a closed rectangular track of length 1000 m, one stop line,  *)
(* two turn segments (the second wraps through 0) and a zone-memory table  *)
(* that has no row for TURN_1.                                             *)
(***************************************************************************)
\* round[i] is the sign of the rounding error of the end point of segment i
\* as the floating-point expression ax + 1.0 * (bx - ax) computes it; integer
\* coordinates are exact
track == [x |-> <<0, 400, 400, 0, 0>>,
          y |-> <<0, 0, 100, 100, 0>>,
          s |-> <<0, 400, 500, 900, 1000>>,
          length_m |-> 1000,
          round |-> <<[ex |-> 0, ey |-> 0], [ex |-> 0, ey |-> 0],
                      [ex |-> 0, ey |-> 0], [ex |-> 0, ey |-> 0]>>]

\* the same loop with every vertex 0.1 m further east and north (coordinates
\* relative to (0.1, 0.1)): 0.1 and 100.1 are not binary fractions, and
\* 400.1 + 1.0 * (0.1 - 400.1) > 0.1, 100.1 + 1.0 * (0.1 - 100.1) < 0.1
track_offset == [x |-> <<0, 400, 400, 0, 0>>,
                 y |-> <<0, 0, 100, 100, 0>>,
                 s |-> <<0, 400, 500, 900, 1000>>,
                 length_m |-> 1000,
                 round |-> <<[ex |-> 0, ey |-> 0], [ex |-> 0, ey |-> 0],
                             [ex |-> 1, ey |-> 0], [ex |-> 0, ey |-> -1]>>]

\* a turn table whose first two segments overlap each other, the second of
\* which also covers the approach to the stop line
turn_segs_overlap == << [s_start |-> 100, s_end |-> 150],
                        [s_start |-> 140, s_end |-> 260],
                        [s_start |-> 950, s_end |-> 3] >>

stop_lines_s == << [stop_line |-> 1, s_stop_m |-> 300],
                   [stop_line |-> 2, s_stop_m |-> 400] >>

turn_segs == << [s_start |-> 100, s_end |-> 150],
                [s_start |-> 950, s_end |-> 3] >>

zone_memory == [z \in {"STRAIGHT", "TURN_2", "STOP_1_APPROACH", "STOP_2_APPROACH"} |->
                  CASE z = "STRAIGHT" ->
                         [opt_speed_mps |-> 250, opt_power_w |-> 100000000,
                          opt_state |-> "COAST", confidence |-> 100]
                    [] z = "TURN_2" ->
                         [opt_speed_mps |-> 220, opt_power_w |-> 100000000,
                          opt_state |-> "COAST", confidence |-> 80]
                    [] z = "STOP_1_APPROACH" ->
                         [opt_speed_mps |-> 220, opt_power_w |-> 100000000,
                          opt_state |-> "COAST", confidence |-> 70]
                    [] z = "STOP_2_APPROACH" ->
                         [opt_speed_mps |-> 220, opt_power_w |-> 100000000,
                          opt_state |-> "COAST", confidence |-> 30]]

(***************************************************************************)
(* track_map.py                                                            *)
(***************************************************************************)
\* np.cos(lat0_rad) for the latitude band of the venue (60 degrees), as a
\* fraction
CosLat0(lat0) == [num |-> 1, den |-> 2]

gps_to_local_xy(lat, lon, lat0, lon0) ==
    [x |-> ((lon - lon0) * CosLat0(lat0).num) \div CosLat0(lat0).den,
     y |-> lat - lat0]

\* One iteration of the loop of project_to_polyline: segment i against the
\* best so far.  best.dist2 = -1 stands for float("inf").  The divisions are
\* exact on tracks whose segments are parallel to the axes.
\* dist2 is the exact squared distance; fine is its first-order floating-point
\* deviation: when t is clamped to 1.0 the closest point is computed as
\* ax + 1.0 * (bx - ax) = b + e, so dist2 deviates by -2 (p - b) . e, while
\* for t = 0.0 the closest point ax + 0.0 * vx is exact.
\* variant: among segments at equal distance the last one wins
ProjectSegment_LastWins(x, y, trk, i, best) ==
    LET ax == trk.x[i]
        ay == trk.y[i]
        vx == trk.x[i + 1] - ax
        vy == trk.y[i + 1] - ay
        vv == vx * vx + vy * vy
        wx == x - ax
        wy == y - ay
        n  == Max2(0, Min2(vv, wx * vx + wy * vy))
        cx == ax + (n * vx) \div vv
        cy == ay + (n * vy) \div vv
        dist2 == (x - cx) * (x - cx) + (y - cy) * (y - cy)
        fine == IF n = vv
                THEN -2 * ((x - trk.x[i + 1]) * trk.round[i].ex
                             + (y - trk.y[i + 1]) * trk.round[i].ey)
                ELSE 0
        seg_s == trk.s[i] + (n * (trk.s[i + 1] - trk.s[i])) \div vv
    IN  IF vv = 0 THEN best
        ELSE IF \/ best.dist2 = -1
                \/ dist2 < best.dist2
                \/ (dist2 = best.dist2 /\ fine <= best.fine)
             THEN [dist2 |-> dist2, fine |-> fine, s |-> seg_s]
             ELSE best

ProjectSegment(x, y, trk, i, best) ==
    LET ax == trk.x[i]
        ay == trk.y[i]
        vx == trk.x[i + 1] - ax
        vy == trk.y[i + 1] - ay
        vv == vx * vx + vy * vy
        wx == x - ax
        wy == y - ay
        n  == Max2(0, Min2(vv, wx * vx + wy * vy))
        cx == ax + (n * vx) \div vv
        cy == ay + (n * vy) \div vv
        dist2 == (x - cx) * (x - cx) + (y - cy) * (y - cy)
        fine == IF n = vv
                THEN -2 * ((x - trk.x[i + 1]) * trk.round[i].ex
                             + (y - trk.y[i + 1]) * trk.round[i].ey)
                ELSE 0
        seg_s == trk.s[i] + (n * (trk.s[i + 1] - trk.s[i])) \div vv
    IN  IF vv = 0 THEN best
        ELSE IF \/ best.dist2 = -1
                \/ dist2 < best.dist2
                \/ (dist2 = best.dist2 /\ fine < best.fine)
             THEN [dist2 |-> dist2, fine |-> fine, s |-> seg_s]
             ELSE best

RECURSIVE ProjectFrom(_, _, _, _, _)
ProjectFrom(x, y, trk, i, best) ==
    IF i > Len(trk.x) - 1 THEN best
    ELSE ProjectFrom(x, y, trk, i + 1, ProjectSegment(x, y, trk, i, best))

\* returns the arc length best_s (the lateral offset is stored in the sample
\* but never read)
project_to_polyline(x, y, trk) ==
    ProjectFrom(x, y, trk, 1, [dist2 |-> -1, fine |-> 0, s |-> 0]).s

(***************************************************************************)
(* zones.py                                                                *)
(***************************************************************************)
InTurn(s_now, z) ==
    IF z.s_start <= z.s_end
    THEN z.s_start <= s_now /\ s_now <= z.s_end
    ELSE s_now >= z.s_start \/ s_now <= z.s_end

\* forward distance to a stop line, wrapped onto the closed loop
StopDist(s_now, r, L) ==
    IF r.s_stop_m - s_now < 0 THEN r.s_stop_m - s_now + L
    ELSE r.s_stop_m - s_now

\* the first row (in table order) among the candidates at minimal distance
BestStop(s_now, stops, L, stop_approach_m) ==
    LET cand == {k \in 1..Len(stops) :
                   /\ 0 < StopDist(s_now, stops[k], L)
                   /\ StopDist(s_now, stops[k], L) <= stop_approach_m}
    IN  IF cand = {} THEN None
        ELSE Some(CHOOSE k \in cand :
                    \A j \in cand :
                       \/ StopDist(s_now, stops[k], L) < StopDist(s_now, stops[j], L)
                       \/ /\ StopDist(s_now, stops[k], L) = StopDist(s_now, stops[j], L)
                          /\ k <= j)

\* variant: the stop approach is looked up before the turns
assign_zone_id_StopFirst(s_now, stops, turns, L, stop_approach_m) ==
    LET hits == {i \in 1..Len(turns) : InTurn(s_now, turns[i])}
        first == CHOOSE i \in hits : \A j \in hits : i <= j
        best == BestStop(s_now, stops, L, stop_approach_m)
    IN  IF ~IsNone(best)
        THEN [zone_type |-> "STOP_APPROACH",
              zone_id |-> "STOP_" \o ToString(stops[Val(best)].stop_line)
                           \o "_APPROACH"]
        ELSE IF hits # {}
        THEN [zone_type |-> "TURN", zone_id |-> "TURN_" \o ToString(first)]
        ELSE [zone_type |-> "STRAIGHT", zone_id |-> "STRAIGHT"]

assign_zone_id(s_now, stops, turns, L, stop_approach_m) ==
    LET hits == {i \in 1..Len(turns) : InTurn(s_now, turns[i])}
        first == CHOOSE i \in hits : \A j \in hits : i <= j
        best == BestStop(s_now, stops, L, stop_approach_m)
    IN  IF hits # {}
        THEN [zone_type |-> "TURN", zone_id |-> "TURN_" \o ToString(first)]
        ELSE IF ~IsNone(best)
        THEN [zone_type |-> "STOP_APPROACH",
              zone_id |-> "STOP_" \o ToString(stops[Val(best)].stop_line)
                           \o "_APPROACH"]
        ELSE [zone_type |-> "STRAIGHT", zone_id |-> "STRAIGHT"]

(***************************************************************************)
(* coach.py: Coach state                                                   *)
(***************************************************************************)
VARIABLES
    lat0, lon0,          \* GPS reference, None until the first accepted sample
    buf,                 \* deque of buffered samples
    last_cue_time,       \* dict cue_key -> wall-clock time
    last_cue_by_zone,    \* dict zone_id -> wall-clock time
    last_cue_by_type,    \* dict cue_type -> wall-clock time
    last_zone_id, last_zone_type, last_zone_s,   \* hysteresis memory
    last_cue_state,      \* dict zone_id -> "green" / "red"
    last_cue_values,     \* dict zone_id -> <<speed, power>>
    now,                 \* time.time()
    op,                  \* the operation that made the last step
    msg,                 \* the message of the last ingest call
    ret,                 \* its outcome: [kind |-> "none" | "raise" | "cue", ...]
    ev,                  \* the values of its evaluation (steps 7-8), or None
    emitted,             \* history: key, zone and time of the cues returned
    feed,                \* the messages the transport delivers in this session
    near,                \* history: every accepted sample was within
                         \* ZONE_HYSTERESIS_M of Boundary
    zone_changes,        \* history: confirmed zone changes (counted up to 2)
    probe,               \* the arguments of a direct call of assign_zone_id
                         \* or project_to_polyline, None in a coaching session
    result,              \* what that call returned, None before it
    hist,                \* history: zone_id -> what its last evaluation found,
                         \* and whether another zone was visited since
    pending,             \* an ingest call that has passed the gates and has
                         \* not stamped yet, None if there is none
    session_enabled      \* MqttClient.session_enabled

coachVars == <<lat0, lon0, buf, last_cue_time, last_cue_by_zone,
               last_cue_by_type, last_zone_id, last_zone_type, last_zone_s,
               last_cue_state, last_cue_values>>

vars == <<lat0, lon0, buf, last_cue_time, last_cue_by_zone, last_cue_by_type,
          last_zone_id, last_zone_type, last_zone_s, last_cue_state,
          last_cue_values, now, op, msg, ret, ev, emitted, feed, near,
          zone_changes, probe, result, hist, pending, session_enabled>>

\* dict.get(k, default)
Get(d, k, default) == IF k \in DOMAIN d THEN d[k] ELSE default

\* variant: the assignment replaces the dict
Put_Only(d, k, v) == [j \in {k} |-> v]

\* d[k] = v
Put(d, k, v) == [j \in DOMAIN d \cup {k} |-> IF j = k THEN v ELSE d[j]]

EmptyDict == [k \in {} |-> 0]

(***************************************************************************)
(* ingest, step 1: field extraction and sanity filters                     *)
(***************************************************************************)
\* float(msg.get("timestamp") or msg.get("ts", time.time())): a number is
\* taken as it is (a millisecond stamp stays a thousand times too large), a
\* string that is not a number makes float() raise ValueError
TsRaises(m) == ~IsNone(m.timestamp) /\ Val(m.timestamp).iso

TsOf(m, t) == IF IsNone(m.timestamp) THEN t ELSE Val(m.timestamp).v

MissingRequired(m) == IsNone(m.latitude) \/ IsNone(m.longitude) \/ IsNone(m.speed)

SpeedOutOfRange(m) ==
    Val(m.speed) < SPEED_MIN_KMH * 10 \/ Val(m.speed) > SPEED_MAX_KMH * 10

\* speed_kmh / 3.6, from 0.1 km/h to 0.1 m/s
SpeedMps(speed_kmh) == (speed_kmh * 5) \div 18

FilterVoltage(v) ==
    IF ~IsNone(v) /\ (Val(v) < VOLTAGE_MIN_V \/ Val(v) > VOLTAGE_MAX_V)
    THEN None ELSE v

FilterCurrent(c) ==
    IF ~IsNone(c) /\ (Val(c) < CURRENT_MIN_A \/ Val(c) > CURRENT_MAX_A)
    THEN None ELSE c

PowerInRange(p) == ~(p < POWER_MIN_W \/ p > POWER_MAX_W)

\* variant: an out-of-range power is kept, the fallback serves only a
\* missing power
ResolvePower_NoRetry(m) ==
    LET v == FilterVoltage(m.voltage)
        c == FilterCurrent(m.current)
    IN  IF IsNone(m.power) /\ ~IsNone(v) /\ ~IsNone(c)
        THEN Some(Val(v) * Abs(Val(c)))
        ELSE m.power

\* prefer the provided power, fall back to voltage * |current|, else None
ResolvePower(m) ==
    LET v == FilterVoltage(m.voltage)
        c == FilterCurrent(m.current)
        p == IF ~IsNone(m.power) /\ ~PowerInRange(Val(m.power))
             THEN None ELSE m.power
    IN  IF IsNone(p) /\ ~IsNone(v) /\ ~IsNone(c)
        THEN Some(Val(v) * Abs(Val(c)))
        ELSE p

\* the sample passes step 1
Accepted(m) ==
    /\ ~TsRaises(m)
    /\ ~MissingRequired(m)
    /\ ~SpeedOutOfRange(m)
    /\ ~IsNone(ResolvePower(m))
    /\ PowerInRange(Val(ResolvePower(m)))

(***************************************************************************)
(* ingest, steps 2-4: GPS reference, projection, buffer, smoothing         *)
(***************************************************************************)
\* variant: the GPS reference latitude is taken before the sanity filters
Lat0After_Early(m) ==
    IF IsNone(lat0) /\ ~IsNone(m.latitude) THEN m.latitude ELSE lat0

\* if self.lat0 is None: self.lat0, self.lon0 = lat, lon -- reached only by a
\* sample that passed step 1
Lat0After(m) == IF Accepted(m) /\ IsNone(lat0) THEN m.latitude ELSE lat0

\* variant: the GPS reference longitude follows every accepted sample
Lon0After_Latest(m) == IF Accepted(m) THEN m.longitude ELSE lon0

Lon0After(m) == IF Accepted(m) /\ IsNone(lat0) THEN m.longitude ELSE lon0

SOf(m) ==
    LET xy == gps_to_local_xy(Val(m.latitude), Val(m.longitude),
                              Val(Lat0After(m)), Val(Lon0After(m)))
    IN  project_to_polyline(xy.x, xy.y, track)

\* the fields of the buffered sample that ingest reads back
SampleOf(m, t) ==
    [ts |-> TsOf(m, t), speed_mps |-> SpeedMps(Val(m.speed)),
     power_w |-> Val(ResolvePower(m))]

\* variant: at most one sample is evicted per call
DropOld_Once(b, ts) ==
    IF b # <<>> /\ ts - Head(b).ts > BUFFER_SECONDS THEN Tail(b) ELSE b

\* while self.buf and (ts - self.buf[0]["ts"]) > horizon: popleft()
RECURSIVE DropOld(_, _)
DropOld(b, ts) ==
    IF b # <<>> /\ ts - Head(b).ts > BUFFER_SECONDS
    THEN DropOld(Tail(b), ts)
    ELSE b

BufAfter(m, t) == DropOld(Append(buf, SampleOf(m, t)), TsOf(m, t))

\* variant: the guard only stops an empty buffer
ColdStart_Empty(b) == Len(b) < 1

\* if len(self.buf) < int(self.cfg["MIN_SAMPLES_FOR_CUE"]): return None
ColdStart(b) == Len(b) < MIN_SAMPLES_FOR_CUE

\* list(self.buf)[-win:]
Recent(b, win) ==
    IF Len(b) <= win THEN b ELSE SubSeq(b, Len(b) - win + 1, Len(b))

RECURSIVE InsertSorted(_, _)
InsertSorted(sorted, v) ==
    IF sorted = <<>> THEN <<v>>
    ELSE IF v <= Head(sorted) THEN <<v>> \o sorted
    ELSE <<Head(sorted)>> \o InsertSorted(Tail(sorted), v)

RECURSIVE SortAsc(_)
SortAsc(q) == IF q = <<>> THEN <<>> ELSE InsertSorted(SortAsc(Tail(q)), Head(q))

\* np.median: the middle value, or the mean of the two middle values
Median(q) ==
    LET srt == SortAsc(q)
        n == Len(q)
    IN  IF n % 2 = 1 THEN srt[(n + 1) \div 2]
        ELSE (srt[n \div 2] + srt[n \div 2 + 1]) \div 2

SmSpeed(b) == Median([i \in 1..Len(Recent(b, SMOOTH_WIN)) |->
                        Recent(b, SMOOTH_WIN)[i].speed_mps])

SmPower(b) == Median([i \in 1..Len(Recent(b, SMOOTH_WIN)) |->
                        Recent(b, SMOOTH_WIN)[i].power_w])

(***************************************************************************)
(* ingest, step 5: zone assignment with hysteresis                         *)
(***************************************************************************)
RawZone(s_m) ==
    assign_zone_id(s_m, stop_lines_s, turn_segs, track.length_m, STOP_APPROACH_M)

\* still within hysteresis distance of the place of the last zone change
HoldZone(s_m, lzid, lzs) ==
    /\ ~IsNone(lzid)
    /\ Val(lzid) # RawZone(s_m).zone_id
    /\ ~IsNone(lzs)
    /\ Abs(s_m - Val(lzs)) < ZONE_HYSTERESIS_M

ZoneOf(s_m, lzid, lztype, lzs) ==
    IF HoldZone(s_m, lzid, lzs)
    THEN [zone_type |-> Val(lztype), zone_id |-> Val(lzid)]
    ELSE RawZone(s_m)

(***************************************************************************)
(* ingest, step 6: zone-memory lookup                                      *)
(***************************************************************************)
\* variant: every known zone is trusted
ConfOk_Always(ref) == TRUE

\* variant: an unknown zone falls back to the row of STRAIGHT
ZoneRef_Default(zone_id) ==
    IF zone_id \in DOMAIN zone_memory THEN Some(zone_memory[zone_id])
    ELSE Some(zone_memory["STRAIGHT"])

\* the row of the zone, None if zone_id not in self.zone_memory.index
ZoneRef(zone_id) ==
    IF zone_id \in DOMAIN zone_memory THEN Some(zone_memory[zone_id]) ELSE None

ConfOk(ref) == ~(ref.confidence < CONFIDENCE_MIN)

\* opt_power_w is stored in micro-watts
OptPower(ref) == ref.opt_power_w \div 1000000

(***************************************************************************)
(* ingest, steps 7-8: candidates and driving state                         *)
(***************************************************************************)
\* cue keys as their "_"-separated tokens
SPEED_HIGH == <<"SPEED", "HIGH">>

TURN_POWER_SPIKE == <<"TURN", "POWER", "SPIKE">>

STOP_APPROACH_POWER == <<"STOP", "APPROACH", "POWER">>

POWER_HIGH == <<"POWER", "HIGH">>

\* sm_speed <= opt_speed * (1.0 + speed_margin_pct)
SpeedOk(sm_speed, opt_speed) ==
    sm_speed * 100 <= opt_speed * (100 + SPEED_MARGIN_PCT)

\* sm_power <= opt_power + power_margin_w
PowerOk(sm_power, opt_power) == sm_power <= opt_power + POWER_MARGIN_W

PowerCue(zone_type) ==
    IF zone_type = "TURN" THEN TURN_POWER_SPIKE
    ELSE IF zone_type = "STOP_APPROACH" THEN STOP_APPROACH_POWER
    ELSE POWER_HIGH

DRIVING_OPTIMAL == <<"DRIVING", "OPTIMAL">>

\* variant: an on-target cue when nothing is breached
Cues_Optimal(zone_type, speed_ok, power_ok) ==
    IF speed_ok /\ power_ok THEN <<DRIVING_OPTIMAL>>
    ELSE (IF ~speed_ok THEN <<SPEED_HIGH>> ELSE <<>>)
           \o (IF ~power_ok THEN <<PowerCue(zone_type)>> ELSE <<>>)

\* variant: the power check appended before the speed check
Cues_PowerFirst(zone_type, speed_ok, power_ok) ==
    (IF ~power_ok THEN <<PowerCue(zone_type)>> ELSE <<>>)
      \o (IF ~speed_ok THEN <<SPEED_HIGH>> ELSE <<>>)

\* the list cues
Cues(zone_type, speed_ok, power_ok) ==
    (IF ~speed_ok THEN <<SPEED_HIGH>> ELSE <<>>)
      \o (IF ~power_ok THEN <<PowerCue(zone_type)>> ELSE <<>>)

BaseState(speed_ok, power_ok) == IF speed_ok /\ power_ok THEN "green" ELSE "red"

\* variant: without the crossing-to-the-optimum case
Improved_NoCross(v, last, opt) == v < last /\ v > opt

\* speed_improved / power_improved
Improved(v, last, opt) == (v < last /\ v > opt) \/ (v <= opt /\ last > opt)

\* variant: the responding check does not look at the recorded state
IsResponding_AnyState(zone_id, cue_state, cue_values, base_state, sm_speed, sm_power, opt_speed, opt_power) ==
    IF zone_id \in DOMAIN cue_values /\ zone_id \in DOMAIN cue_state
    THEN IF base_state = "green" THEN cue_state[zone_id] = "red"
         ELSE \/ Improved(sm_speed, cue_values[zone_id][1], opt_speed)
              \/ Improved(sm_power, cue_values[zone_id][2], opt_power)
    ELSE FALSE

IsResponding(zone_id, cue_state, cue_values, base_state, sm_speed, sm_power, opt_speed, opt_power) ==
    IF zone_id \in DOMAIN cue_values /\ zone_id \in DOMAIN cue_state
    THEN IF cue_state[zone_id] = "red" /\ base_state = "green" THEN TRUE
         ELSE IF cue_state[zone_id] = "red" /\ base_state = "red"
         THEN \/ Improved(sm_speed, cue_values[zone_id][1], opt_speed)
              \/ Improved(sm_power, cue_values[zone_id][2], opt_power)
         ELSE FALSE
    ELSE FALSE

\* variant: the driving state ignores the responding check
DrivingState_BaseOnly(base_state, is_responding) == base_state

DrivingState(base_state, is_responding) ==
    IF base_state = "green" \/ is_responding THEN "green" ELSE "red"

\* the values of one evaluation of zone z, with zone-memory row ref, on
\* buffer b
Evaluate(z, ref, b) ==
    LET sm_speed == SmSpeed(b)
        sm_power == SmPower(b)
        opt_speed == ref.opt_speed_mps
        opt_power == OptPower(ref)
        speed_ok == SpeedOk(sm_speed, opt_speed)
        power_ok == PowerOk(sm_power, opt_power)
        base_state == BaseState(speed_ok, power_ok)
        is_responding == IsResponding(z.zone_id, last_cue_state, last_cue_values,
                                      base_state, sm_speed, sm_power,
                                      opt_speed, opt_power)
    IN  [zone_id |-> z.zone_id, zone_type |-> z.zone_type,
         confidence |-> ref.confidence,
         last_state |-> IF z.zone_id \in DOMAIN last_cue_state
                        THEN Some(last_cue_state[z.zone_id]) ELSE None,
         last_values |-> IF z.zone_id \in DOMAIN last_cue_values
                         THEN Some(last_cue_values[z.zone_id]) ELSE None,
         sm_speed |-> sm_speed, sm_power |-> sm_power,
         opt_speed |-> opt_speed, opt_power |-> opt_power,
         speed_ok |-> speed_ok, power_ok |-> power_ok,
         base_state |-> base_state, is_responding |-> is_responding,
         driving_state |-> DrivingState(base_state, is_responding),
         cues |-> Cues(z.zone_type, speed_ok, power_ok)]

(***************************************************************************)
(* ingest, step 9: debounce                                                *)
(***************************************************************************)
\* cue_key.split("_")[0] if "_" in cue_key else cue_key
CueType(cue_key) == IF Len(cue_key) > 1 THEN <<cue_key[1]>> ELSE cue_key

KeyGate(cue_key, t) ==
    ~(t - Get(last_cue_time, cue_key, 0) < MIN_SECONDS_BETWEEN_SAME_CUE)

ZoneGate(zone_id, t) ==
    ~(t - Get(last_cue_by_zone, zone_id, 0) < CUE_COOLDOWN_BY_ZONE)

TypeGate(cue_key, t) ==
    ~(t - Get(last_cue_by_type, CueType(cue_key), 0) < CUE_COOLDOWN_BY_TYPE)

\* variant: only the zone cooldown
GatesPass_ZoneOnly(cue_key, zone_id, t) == ZoneGate(zone_id, t)

\* variant: without the zone cooldown
GatesPass_NoZone(cue_key, zone_id, t) == KeyGate(cue_key, t) /\ TypeGate(cue_key, t)

GatesPass(cue_key, zone_id, t) ==
    KeyGate(cue_key, t) /\ ZoneGate(zone_id, t) /\ TypeGate(cue_key, t)

\* step 10: the returned payload (the legacy fields repeat these)
CueOf(e, t) ==
    [kind |-> "cue", ts |-> t, zone_id |-> e.zone_id, zone_type |-> e.zone_type,
     confidence |-> e.confidence, state |-> e.driving_state,
     is_responding |-> e.is_responding,
     current_speed_kmh |-> (e.sm_speed * 18) \div 5,
     optimal_speed_kmh |-> (e.opt_speed * 18) \div 5,
     current_power_w |-> e.sm_power, optimal_power_w |-> e.opt_power,
     cue_key |-> e.cues[1]]

NoCue == [kind |-> "none"]

Raised == [kind |-> "raise"]

(***************************************************************************)
(* Telemetry messages                                                      *)
(***************************************************************************)
\* points on the first edge of the track, x = 0, 4, 7, 120 and 250 m after
\* the point with longitude 1000000
Positions == {[lat |-> 6671700, lon |-> 1000000],
              [lat |-> 6671700, lon |-> 1000008],
              [lat |-> 6671700, lon |-> 1000014],
              [lat |-> 6671700, lon |-> 1000240],
              [lat |-> 6671700, lon |-> 1000500]}

\* 72, 100.8 and 108 km/h (20, 28, 30 m/s); 80 and 140 W
Profiles == {[speed |-> 720, power |-> 80],
             [speed |-> 1008, power |-> 80],
             [speed |-> 720, power |-> 140],
             [speed |-> 1080, power |-> 140]}

Telemetry(pos, prof, tsopt) ==
    [timestamp |-> tsopt, latitude |-> Some(pos.lat), longitude |-> Some(pos.lon),
     speed |-> Some(prof.speed), power |-> Some(prof.power),
     current |-> None, voltage |-> None]

NumTs(v) == Some([iso |-> FALSE, v |-> v])

\* an ISO datetime string
IsoTs == Some([iso |-> TRUE, v |-> 0])

BaseMsg == Telemetry([lat |-> 6671700, lon |-> 1000014],
                     [speed |-> 720, power |-> 80], None)

\* Samples of one burst carry the stamp 100; a sample stamped 125 is more
\* than BUFFER_SECONDS later.
\* driving on both sides of the start line: TURN_2 and STRAIGHT
DriveMsgs == {Telemetry(pos, prof, NumTs(100)) :
                pos \in {[lat |-> 6671700, lon |-> 1000000],
                         [lat |-> 6671700, lon |-> 1000014]},
                prof \in Profiles}

\* too fast and too much power at the start line, then easing off on the
\* straight, across a telemetry gap
EaseMsgs == {Telemetry([lat |-> 6671700, lon |-> 1000000],
                       [speed |-> 1080, power |-> 140], NumTs(100)),
             Telemetry([lat |-> 6671700, lon |-> 1000014],
                       [speed |-> 1080, power |-> 140], NumTs(100)),
             Telemetry([lat |-> 6671700, lon |-> 1000014],
                       [speed |-> 1008, power |-> 80], NumTs(100)),
             Telemetry([lat |-> 6671700, lon |-> 1000014],
                       [speed |-> 1008, power |-> 80], NumTs(125))}

\* a lap through every zone at 72 km/h and 140 W
ZoneMsgs == {Telemetry(pos, [speed |-> 720, power |-> 140], NumTs(100)) :
               pos \in Positions}

\* one sample in every form a message takes: without a timestamp (ts falls
\* back to time.time()), stamped in seconds or in milliseconds, with an ISO
\* string, with missing or out-of-range fields
StampedMsgs == {[BaseMsg EXCEPT !.timestamp = NumTs(v)] : v \in {130, 100000}}

MalformedMsgs ==
    {[BaseMsg EXCEPT !.latitude = None],
     [BaseMsg EXCEPT !.longitude = None],
     [BaseMsg EXCEPT !.speed = None],
     [BaseMsg EXCEPT !.speed = Some(2520)],
     [BaseMsg EXCEPT !.power = None],
     [BaseMsg EXCEPT !.power = Some(6000)],
     [BaseMsg EXCEPT !.power = None, !.voltage = Some(40), !.current = Some(-2)],
     [BaseMsg EXCEPT !.power = Some(6000), !.voltage = Some(40), !.current = Some(2)],
     [BaseMsg EXCEPT !.power = None, !.voltage = Some(600), !.current = Some(2)],
     [BaseMsg EXCEPT !.power = None, !.voltage = Some(400), !.current = Some(150)],
     [BaseMsg EXCEPT !.voltage = Some(600), !.current = Some(2)],
     [BaseMsg EXCEPT !.timestamp = IsoTs],
     [BaseMsg EXCEPT !.timestamp = IsoTs, !.latitude = None]}

InputMsgs == {BaseMsg} \cup StampedMsgs \cup MalformedMsgs

\* on the straight and, 343 m further, in the approach to the second stop
\* line, whose zone-memory row has a confidence below CONFIDENCE_MIN
LowConfMsgs == {Telemetry(pos, prof, NumTs(100)) :
                  pos \in {[lat |-> 6671700, lon |-> 1000014],
                           [lat |-> 6671700, lon |-> 1000700]},
                  prof \in Profiles}

Feeds == {DriveMsgs, EaseMsgs, ZoneMsgs, InputMsgs, LowConfMsgs}

\* the boundary between TURN_2 and STRAIGHT
Boundary == turn_segs[2].s_end

(***************************************************************************)
(* Coach.__init__                                                          *)
(***************************************************************************)
\* the Coach and the MqttClient as constructed
Constructed ==
    /\ lat0 = None /\ lon0 = None
    /\ buf = <<>>
    /\ last_cue_time = EmptyDict
    /\ last_cue_by_zone = EmptyDict
    /\ last_cue_by_type = EmptyDict
    /\ last_zone_id = None /\ last_zone_type = None /\ last_zone_s = None
    /\ last_cue_state = EmptyDict
    /\ last_cue_values = EmptyDict
    /\ now = WallClockStart
    /\ op = "init"
    /\ msg = None
    /\ ret = NoCue
    /\ ev = None
    /\ emitted = <<>>
    /\ near = TRUE
    /\ zone_changes = 0
    /\ hist = EmptyDict
    /\ pending = None
    /\ session_enabled = TRUE

Init ==
    /\ Constructed
    /\ feed \in Feeds
    /\ probe = None
    /\ result = None

(***************************************************************************)
(* Coach.ingest                                                            *)
(***************************************************************************)
\* the call is between the gates and the stamps
InFlight == [kind |-> "inflight"]

\* lines 260-304: the three stamps with the time t read at line 238, and the
\* returned payload; gated counts the cues that had been returned when the
\* gates were evaluated
Stamp(e, t, gated) ==
    /\ last_cue_time' = Put(last_cue_time, e.cues[1], t)
    /\ last_cue_by_zone' = Put(last_cue_by_zone, e.zone_id, t)
    /\ last_cue_by_type' = Put(last_cue_by_type, CueType(e.cues[1]), t)
    /\ ret' = CueOf(e, t)
    /\ emitted' = Append(emitted, [cue_key |-> e.cues[1], zone_id |-> e.zone_id,
                                   ts |-> t, gated |-> gated])

\* history of the evaluations: a sample was placed in zone z; e holds the
\* values of its evaluation (lines 173-226), None if the call returned
\* before.  Per evaluated zone: the isResponding, the state and the smoothed
\* values of its last evaluation, whether a sample was placed in another
\* zone since (away), and what resp and away were before that evaluation
HistAfter(z, e) ==
    [y \in DOMAIN hist \cup (IF IsNone(e) THEN {} ELSE {z}) |->
        IF y # z
        THEN [hist[y] EXCEPT !.away = TRUE]
        ELSE IF IsNone(e) THEN hist[y]
        ELSE [resp |-> Val(e).is_responding, away |-> FALSE,
              state |-> Val(e).driving_state,
              values |-> <<Val(e).sm_speed, Val(e).sm_power>>,
              prev_resp |-> IF z \in DOMAIN hist THEN hist[z].resp ELSE FALSE,
              revisit |-> IF z \in DOMAIN hist THEN hist[z].away ELSE FALSE]]

\* variant: a candidate stopped by a gate still stamps the type cooldown
CueLogic_StampOnDrop(z, ref, b, split) ==
    LET e == Evaluate(z, ref, b)
    IN  /\ last_cue_state' = Put(last_cue_state, z.zone_id, e.driving_state)
        /\ last_cue_values' = Put(last_cue_values, z.zone_id,
                                  <<e.sm_speed, e.sm_power>>)
        /\ ev' = Some(e)
        /\ IF e.cues # <<>> /\ GatesPass(e.cues[1], z.zone_id, now)
           THEN IF split
                THEN /\ ret' = InFlight
                     /\ UNCHANGED <<last_cue_time, last_cue_by_zone,
                                    last_cue_by_type, emitted>>
                ELSE Stamp(e, now, Len(emitted))
           ELSE /\ ret' = NoCue
                /\ last_cue_by_type' =
                      IF e.cues # <<>>
                      THEN Put(last_cue_by_type, CueType(e.cues[1]), now)
                      ELSE last_cue_by_type
                /\ UNCHANGED <<last_cue_time, last_cue_by_zone, emitted>>

\* steps 7-10 for zone z on the buffer b
\* (with split, the call is suspended between the gates and the stamps)
CueLogic(z, ref, b, split) ==
    LET e == Evaluate(z, ref, b)
    IN  /\ last_cue_state' = Put(last_cue_state, z.zone_id, e.driving_state)
        /\ last_cue_values' = Put(last_cue_values, z.zone_id,
                                  <<e.sm_speed, e.sm_power>>)
        /\ ev' = Some(e)
        /\ IF e.cues # <<>> /\ GatesPass(e.cues[1], z.zone_id, now)
           THEN IF split
                THEN /\ ret' = InFlight
                     /\ UNCHANGED <<last_cue_time, last_cue_by_zone,
                                    last_cue_by_type, emitted>>
                ELSE Stamp(e, now, Len(emitted))
           ELSE /\ ret' = NoCue
                /\ UNCHANGED <<last_cue_time, last_cue_by_zone, last_cue_by_type,
                               emitted>>

\* steps 5-10 for a sample at arc length s_m
ZoneLogic(s_m, b, split) ==
    LET z == ZoneOf(s_m, last_zone_id, last_zone_type, last_zone_s)
    IN  /\ IF last_zone_id # Some(z.zone_id)
           THEN /\ last_zone_id' = Some(z.zone_id)
                /\ last_zone_type' = Some(z.zone_type)
                /\ last_zone_s' = Some(s_m)
                /\ zone_changes' = IF IsNone(last_zone_id) THEN zone_changes
                                   ELSE Min2(zone_changes + 1, 2)
           ELSE UNCHANGED <<last_zone_id, last_zone_type, last_zone_s, zone_changes>>
        /\ IF ~IsNone(ZoneRef(z.zone_id)) /\ ConfOk(Val(ZoneRef(z.zone_id)))
           THEN /\ CueLogic(z, Val(ZoneRef(z.zone_id)), b, split)
                /\ hist' = HistAfter(z.zone_id, ev')
           ELSE /\ ret' = NoCue
                /\ ev' = None
                /\ hist' = HistAfter(z.zone_id, None)
                /\ UNCHANGED <<last_cue_state, last_cue_values, last_cue_time,
                               last_cue_by_zone, last_cue_by_type, emitted>>

\* the newest n samples of buffer b
Newest(b, n) == IF Len(b) <= n THEN b ELSE SubSeq(b, Len(b) - n + 1, Len(b))

\* The buffer a call leaves.  In a stream that never ends the model keeps
\* the newest MaxBuf samples: of an older sample ingest reads nothing (the
\* smoothing reads the last SMOOTH_WIN samples, the cold-start guard compares
\* the length with MIN_SAMPLES_FOR_CUE) as long as the samples are stamped
\* with the wall clock and the clock stays within BUFFER_SECONDS.
BufKept(m, t, mode) ==
    IF mode = "stream" THEN Newest(BufAfter(m, t), MaxBuf) ELSE BufAfter(m, t)

\* One call of ingest.  mode "whole": from entry to return; "gates": up to
\* the third gate (line 257), suspended there if the gates pass; "stream":
\* a whole call in a stream that never ends.
Call(m, mode) ==
    /\ op' = "ingest"
    /\ UNCHANGED <<feed, probe, result, session_enabled>>
    /\ msg' = Some(m)
    /\ now' = now
    /\ IF TsRaises(m)
       THEN /\ ret' = Raised
            /\ ev' = None
            /\ UNCHANGED <<coachVars, emitted, near, zone_changes, hist>>
       ELSE IF ~Accepted(m)
       THEN /\ ret' = NoCue
            /\ ev' = None
            /\ lat0' = Lat0After(m)
            /\ lon0' = Lon0After(m)
            /\ UNCHANGED <<buf, last_cue_time, last_cue_by_zone, last_cue_by_type,
                           last_zone_id, last_zone_type, last_zone_s,
                           last_cue_state, last_cue_values, emitted, near,
                           zone_changes, hist>>
       ELSE /\ Len(BufKept(m, now, mode)) <= MaxBuf
            /\ lat0' = Lat0After(m)
            /\ lon0' = Lon0After(m)
            /\ buf' = BufKept(m, now, mode)
            /\ near' = (near /\ Abs(SOf(m) - Boundary) < ZONE_HYSTERESIS_M)
            /\ IF ColdStart(BufAfter(m, now))
               THEN /\ ret' = NoCue
                    /\ ev' = None
                    /\ UNCHANGED <<last_cue_time, last_cue_by_zone,
                                   last_cue_by_type, last_zone_id, last_zone_type,
                                   last_zone_s, last_cue_state, last_cue_values,
                                   emitted, zone_changes, hist>>
               ELSE ZoneLogic(SOf(m), BufAfter(m, now), mode = "gates")
    /\ pending' = IF ret' = InFlight
                  THEN Some([e |-> ev'[1], t |-> now, gated |-> Len(emitted)])
                  ELSE pending

\* ingest, called by one caller at a time
Ingest(m) == Call(m, "whole")

\* wall-clock time passes between two calls
Tick ==
    /\ now < WallClockStart + MaxElapsed
    /\ now' = now + 1
    /\ op' = "tick"
    /\ UNCHANGED <<coachVars, msg, ret, ev, emitted, near, zone_changes, feed,
                   probe, result, hist, pending, session_enabled>>

Next == (\E m \in feed : Ingest(m)) \/ Tick

Spec == Init /\ [][Next]_vars

(***************************************************************************)
(* Two callers of ingest on one Coach, without a lock.  The call of one of *)
(* them can be suspended after its last gate (line 257) and before its     *)
(* first stamp (line 260); the calls of the other run in between.          *)
(***************************************************************************)
\* lines 34-257 of a call: everything up to the third gate
IngestGates(m) ==
    /\ pending = None
    /\ Call(m, "gates")

\* lines 260-304 of the suspended call, with the time it read at line 238
IngestStamp ==
    /\ pending # None
    /\ Stamp(Val(pending).e, Val(pending).t, Val(pending).gated)
    /\ pending' = None
    /\ op' = "stamp"
    /\ ev' = Some(Val(pending).e)
    /\ UNCHANGED <<lat0, lon0, buf, last_zone_id, last_zone_type, last_zone_s,
                   last_cue_state, last_cue_values, now, msg, feed, near,
                   zone_changes, probe, result, hist, session_enabled>>

ConcInit ==
    /\ Constructed
    /\ feed = DriveMsgs
    /\ probe = None
    /\ result = None

ConcNext ==
    \/ \E m \in feed : IngestGates(m)
    \/ IngestStamp
    \/ \E m \in feed : Ingest(m)
    \/ Tick

ConcSpec == ConcInit /\ [][ConcNext]_vars

(***************************************************************************)
(* A stream of telemetry that never ends, from a vehicle that stays too    *)
(* fast in one zone.  The transport keeps delivering and the wall clock    *)
(* keeps advancing (up to the bound of the model).                         *)
(***************************************************************************)
\* 100.8 and 108 km/h at the start line, stamped by the receiver
LiveMsgs == {Telemetry([lat |-> 6671700, lon |-> 1000014], prof, None) :
               prof \in {[speed |-> 1008, power |-> 80],
                         [speed |-> 1080, power |-> 140]}}

\* a whole call of ingest in the stream
IngestStream(m) == Call(m, "stream")

LiveInit ==
    /\ Constructed
    /\ feed = LiveMsgs
    /\ probe = None
    /\ result = None

LiveNext == (\E m \in feed : IngestStream(m)) \/ Tick

\* Time passes, and samples keep arriving: paho's network loop hands every
\* message that arrives to the handler, so ingest steps occur again and
\* again.  (IngestStream is enabled in every state; the second condition is
\* its weak fairness, written without ENABLED.)
LiveSpec ==
    /\ LiveInit
    /\ [][LiveNext]_vars
    /\ WF_vars(Tick)
    /\ []<><<\E m \in feed : IngestStream(m)>>_vars

(***************************************************************************)
(* mqtt_client.py and main.py: the transport.  paho runs _on_message on    *)
(* its one network thread, one message at a time.                          *)
(***************************************************************************)
\* strings as sequences of characters
Chars(str) ==
    CASE str = "enable" -> <<"e", "n", "a", "b", "l", "e">>
      [] str = "disable" -> <<"d", "i", "s", "a", "b", "l", "e">>
      [] str = " ENABLE " -> <<" ", "E", "N", "A", "B", "L", "E", " ">>
      [] str = "Disable" -> <<"D", "i", "s", "a", "b", "l", "e">>
      [] str = "pause" -> <<"p", "a", "u", "s", "e">>
      [] str = "false" -> <<"f", "a", "l", "s", "e">>
      [] str = "" -> <<>>

\* str.lower()
LowerChar(c) ==
    CASE c = "E" -> "e" [] c = "N" -> "n" [] c = "A" -> "a" [] c = "B" -> "b"
      [] c = "L" -> "l" [] c = "D" -> "d" [] OTHER -> c

Lower(cs) == [i \in 1..Len(cs) |-> LowerChar(cs[i])]

\* str.strip()
RECURSIVE StripLeft(_)
StripLeft(cs) ==
    IF cs # <<>> /\ Head(cs) = " " THEN StripLeft(Tail(cs)) ELSE cs

RECURSIVE StripRight(_)
StripRight(cs) ==
    IF cs # <<>> /\ cs[Len(cs)] = " "
    THEN StripRight(SubSeq(cs, 1, Len(cs) - 1)) ELSE cs

Strip(cs) == StripRight(StripLeft(cs))

\* JSON values: true / false, a number, a string
JBool(b) == [type |-> "bool", b |-> b, n |-> 0, s |-> ""]

JInt(n) == [type |-> "int", b |-> FALSE, n |-> n, s |-> ""]

JStr(str) == [type |-> "str", b |-> FALSE, n |-> 0, s |-> str]

\* bool(v) of a JSON value
Truthy(v) ==
    CASE v.type = "bool" -> v.b
      [] v.type = "int" -> v.n # 0
      [] v.type = "str" -> Chars(v.s) # <<>>

\* a control payload: a JSON object whose keys "action" and "enabled" are
\* present or not (a null "enabled" reads like an absent one)
Control(action, enabled) == [action |-> action, enabled |-> enabled]

ControlPayloads ==
    {Control(None, None),
     Control(Some("enable"), None),
     Control(Some("disable"), None),
     Control(Some("pause"), None),
     Control(Some(" ENABLE "), Some(JBool(FALSE))),
     Control(Some("Disable"), Some(JBool(TRUE))),
     Control(Some("pause"), Some(JBool(FALSE))),
     Control(None, Some(JBool(TRUE))),
     Control(None, Some(JBool(FALSE))),
     Control(None, Some(JInt(0))),
     Control(None, Some(JStr("false")))}

\* str(payload.get("action", "")).lower().strip()
ActionOf(p) == Strip(Lower(IF IsNone(p.action) THEN <<>> ELSE Chars(Val(p.action))))

\* session_enabled after the control payload p (lines 69-78)
SessionAfter(p, cur) ==
    LET enabled == IF ActionOf(p) = Chars("enable") THEN Some(JBool(TRUE))
                   ELSE IF ActionOf(p) = Chars("disable") THEN Some(JBool(FALSE))
                   ELSE p.enabled
    IN  IF ~IsNone(enabled) THEN Truthy(Val(enabled)) ELSE cur

\* variant: telemetry is handed on whatever the session flag
Delivered_Always(enabled) == TRUE

\* if self.session_enabled and self._on_msg_cb (main.py sets the handler,
\* which tests is_session_enabled() again)
Delivered(enabled) == enabled

TransportFrame ==
    UNCHANGED <<coachVars, now, ret, ev, emitted, feed, near, zone_changes,
                probe, result, hist, pending>>

\* a message on the control topic
OnControl(p) ==
    /\ op' = "control"
    /\ msg' = Some(p)
    /\ session_enabled' = SessionAfter(p, session_enabled)
    /\ TransportFrame

\* a message on the telemetry topic: handle_msg calls coach.ingest and
\* publishes the cue it returns
OnTelemetry(m) ==
    IF Delivered(session_enabled)
    THEN Ingest(m)
    ELSE /\ op' = "ignored"
         /\ msg' = Some(m)
         /\ UNCHANGED session_enabled
         /\ TransportFrame

\* a payload that is not JSON
OnUndecodable ==
    /\ op' = "undecodable"
    /\ msg' = None
    /\ UNCHANGED session_enabled
    /\ TransportFrame

\* speed and power above and within their thresholds, on the straight
SessionMsgs == {Telemetry([lat |-> 6671700, lon |-> 1000014], prof, NumTs(100)) :
                  prof \in {[speed |-> 1080, power |-> 140],
                            [speed |-> 720, power |-> 80]}}

SessionInit ==
    /\ Constructed
    /\ feed = SessionMsgs
    /\ probe = None
    /\ result = None

SessionNext ==
    \/ \E p \in ControlPayloads : OnControl(p)
    \/ \E m \in feed : OnTelemetry(m)
    \/ OnUndecodable
    \/ Tick

SessionSpec == SessionInit /\ [][SessionNext]_vars

(***************************************************************************)
(* Direct calls of the two pure functions, assign_zone_id and              *)
(* project_to_polyline, on arguments drawn from bounded sets.              *)
(***************************************************************************)
\* every metre of the loop, against both turn tables
ZoneProbes == {[fn |-> "assign_zone_id", s_now |-> s, turns |-> tt] :
                 s \in 0..track.length_m, tt \in {turn_segs, turn_segs_overlap}}

\* points within ProbeReach metres of a vertex or of the middle of an edge
ProbeXs == UNION {(c - ProbeReach)..(c + ProbeReach) : c \in {0, 200, 400}}

ProbeYs == UNION {(c - ProbeReach)..(c + ProbeReach) : c \in {0, 50, 100}}

PointProbes == {[fn |-> "project_to_polyline", x |-> px, y |-> py, trk |-> tr] :
                  px \in ProbeXs, py \in ProbeYs, tr \in {track, track_offset}}

\* the exact coordinates of vertex i
VertexProbes == {[fn |-> "project_vertex", i |-> k, trk |-> tr] :
                   k \in 1..Len(track.x), tr \in {track, track_offset}}

\* no coaching session runs: the Coach fields stay as constructed
SurveyInit ==
    /\ lat0 = None /\ lon0 = None
    /\ buf = <<>>
    /\ last_cue_time = EmptyDict
    /\ last_cue_by_zone = EmptyDict
    /\ last_cue_by_type = EmptyDict
    /\ last_zone_id = None /\ last_zone_type = None /\ last_zone_s = None
    /\ last_cue_state = EmptyDict
    /\ last_cue_values = EmptyDict
    /\ now = WallClockStart
    /\ op = "init"
    /\ msg = None
    /\ ret = NoCue
    /\ ev = None
    /\ emitted = <<>>
    /\ feed = {}
    /\ near = TRUE
    /\ zone_changes = 0
    /\ probe \in {Some(q) : q \in ZoneProbes \cup PointProbes \cup VertexProbes}
    /\ result = None
    /\ hist = EmptyDict
    /\ pending = None
    /\ session_enabled = TRUE

SurveyFrame ==
    UNCHANGED <<coachVars, now, msg, ret, ev, emitted, feed, near, zone_changes,
                probe, hist, pending, session_enabled>>

CallAssignZone ==
    /\ result = None
    /\ Val(probe).fn = "assign_zone_id"
    /\ result' = Some(assign_zone_id(Val(probe).s_now, stop_lines_s,
                                     Val(probe).turns, track.length_m,
                                     STOP_APPROACH_M))
    /\ op' = "assign_zone_id"
    /\ SurveyFrame

CallProject ==
    /\ result = None
    /\ Val(probe).fn = "project_to_polyline"
    /\ result' = Some(project_to_polyline(Val(probe).x, Val(probe).y,
                                          Val(probe).trk))
    /\ op' = "project_to_polyline"
    /\ SurveyFrame

CallProjectVertex ==
    /\ result = None
    /\ Val(probe).fn = "project_vertex"
    /\ result' = Some(project_to_polyline(Val(probe).trk.x[Val(probe).i],
                                          Val(probe).trk.y[Val(probe).i],
                                          Val(probe).trk))
    /\ op' = "project_vertex"
    /\ SurveyFrame

SurveyNext == CallAssignZone \/ CallProject \/ CallProjectVertex

SurveySpec == SurveyInit /\ [][SurveyNext]_vars

(***************************************************************************)
(* Properties                                                              *)
(***************************************************************************)
Pairs == {p \in (1..Len(emitted)) \X (1..Len(emitted)) : p[1] < p[2]}

Gap(p) == Abs(emitted[p[2]].ts - emitted[p[1]].ts)

\* C1: no two emitted cues with the same cue_key have emission times closer
\* than MIN_SECONDS_BETWEEN_SAME_CUE
C1_SameCueSpacing ==
    \A p \in Pairs :
        emitted[p[1]].cue_key = emitted[p[2]].cue_key
            => Gap(p) >= MIN_SECONDS_BETWEEN_SAME_CUE

\* the same cue_key was emitted twice, in two different zones
C1_Witness ==
    \E p \in Pairs : /\ emitted[p[1]].cue_key = emitted[p[2]].cue_key
                     /\ emitted[p[1]].zone_id # emitted[p[2]].zone_id

\* C2: while the position of every accepted sample is within
\* ZONE_HYSTERESIS_M of the boundary, at most one confirmed zone change occurs
C2_NoFlicker == near => zone_changes <= 1

\* the required fields of a message are not all present
FieldMissing(m) == m.latitude = None \/ m.longitude = None \/ m.speed = None

\* C3: an ingest call whose sample lacks latitude, longitude or speed yields
\* no cue and changes no session state (GPS origin, buffer, hysteresis
\* memory, per-zone cue state, the three rate-limit maps)
C3_MissingFieldNoEffect ==
    [][(op' = "ingest" /\ msg' # None /\ FieldMissing(msg'[1]))
          => (ret'.kind # "cue" /\ UNCHANGED coachVars /\ UNCHANGED emitted)]_vars

\* a sample without speed was ingested by a session that holds state
C3_Witness ==
    /\ op = "ingest" /\ msg # None /\ msg[1].speed = None
    /\ msg[1].latitude # None /\ msg[1].longitude # None
    /\ ret = NoCue /\ buf # <<>> /\ lat0 # None

\* C4: ingest never returns a cue whose zone_id is absent from the
\* zone-memory table; the zone of the returned cue is the zone confirmed by
\* the hysteresis step, so a sample confirmed in an absent zone yields no cue
C4_UnknownZoneNoCue ==
    ret.kind = "cue" =>
        /\ ret.zone_id \in DOMAIN zone_memory
        /\ last_zone_id = <<ret.zone_id>>

\* a sample with a power breach was evaluated in TURN_1, which has no row
C4_Witness ==
    /\ op = "ingest" /\ ret = NoCue
    /\ last_zone_id = <<"TURN_1">>
    /\ "TURN_1" \notin DOMAIN zone_memory
    /\ Len(buf) >= MIN_SAMPLES_FOR_CUE
    /\ msg # None /\ msg[1].power = <<140>>
    /\ buf[Len(buf)].power_w = 140

\* C5: ingest never raises
C5_NeverRaises == ret.kind # "raise"

\* a threshold is breached by the values the cue reports
Breached(c) ==
    \/ c.current_speed_kmh * 100 > c.optimal_speed_kmh * (100 + SPEED_MARGIN_PCT)
    \/ c.current_power_w > c.optimal_power_w + POWER_MARGIN_W

C7_KeySelection ==
    ret.kind = "cue" =>
        ret.cue_key =
            IF ret.current_speed_kmh * 100
                 > ret.optimal_speed_kmh * (100 + SPEED_MARGIN_PCT)
            THEN <<"SPEED", "HIGH">>
            ELSE IF ret.zone_type = "TURN" THEN <<"TURN", "POWER", "SPIKE">>
            ELSE IF ret.zone_type = "STOP_APPROACH"
            THEN <<"STOP", "APPROACH", "POWER">>
            ELSE <<"POWER", "HIGH">>

\* a cue with both thresholds breached
C7_Witness ==
    /\ ret.kind = "cue"
    /\ ret.current_speed_kmh * 100 > ret.optimal_speed_kmh * (100 + SPEED_MARGIN_PCT)
    /\ ret.current_power_w > ret.optimal_power_w + POWER_MARGIN_W
    /\ ret.cue_key = <<"SPEED", "HIGH">>

\* value v moved toward optimum opt from the recorded value last
MovedToward(v, last, opt) == (v < last /\ v > opt) \/ (v <= opt /\ last > opt)

\* the responding condition, on the state recorded for the zone before the
\* call (cs, cv) and the values e of the evaluation
RespondingExpected(cs, cv, e) ==
    /\ e.zone_id \in DOMAIN cs
    /\ cs[e.zone_id] = "red"
    /\ \/ e.base_state = "green"
       \/ /\ e.base_state = "red"
          /\ \/ MovedToward(e.sm_speed, cv[e.zone_id][1], e.opt_speed)
             \/ MovedToward(e.sm_power, cv[e.zone_id][2], e.opt_power)

\* C8: at each evaluation isResponding is true exactly when the zone's
\* recorded state is red and either baseState is green, or baseState is red
\* and speed or power moved toward the optimum; recorded (red, speed 30),
\* optimum 25 and smoothed speed 28 give isResponding = true
C8_Responding ==
    [][(op' = "ingest" /\ ev' # None)
          => /\ ev'[1].is_responding
                  <=> RespondingExpected(last_cue_state, last_cue_values, ev'[1])
             /\ ev'[1].base_state = "green"
                  <=> (/\ ev'[1].sm_speed * 100
                            <= ev'[1].opt_speed * (100 + SPEED_MARGIN_PCT)
                       /\ ev'[1].sm_power <= ev'[1].opt_power + POWER_MARGIN_W)
             /\ (/\ ev'[1].zone_id \in DOMAIN last_cue_state
                 /\ last_cue_state[ev'[1].zone_id] = "red"
                 /\ last_cue_values[ev'[1].zone_id][1] = 300
                 /\ ev'[1].opt_speed = 250
                 /\ ev'[1].sm_speed = 280) => ev'[1].is_responding]_vars

\* the example: recorded (red, 30 m/s), optimum 25 m/s, smoothed speed 28 m/s
C8_Witness ==
    /\ op = "ingest" /\ ev # None
    /\ ev[1].last_state = <<"red">>
    /\ ev[1].last_values # None /\ ev[1].last_values[1][1] = 300
    /\ ev[1].opt_speed = 250
    /\ ev[1].sm_speed = 280
    /\ ev[1].is_responding

\* C9: no two emitted cues with the same zone_id have emission times closer
\* than CUE_COOLDOWN_BY_ZONE, whatever their cue_keys
C9_SameZoneSpacing ==
    \A p \in Pairs :
        emitted[p[1]].zone_id = emitted[p[2]].zone_id
            => Gap(p) >= CUE_COOLDOWN_BY_ZONE

\* two cues with different keys were emitted in the same zone
C9_Witness ==
    \E p \in Pairs : /\ emitted[p[1]].zone_id = emitted[p[2]].zone_id
                     /\ emitted[p[1]].cue_key # emitted[p[2]].cue_key

\* the token preceding the first underscore of a cue_key
TypeToken(cue_key) == cue_key[1]

\* C10: no two emitted cues whose cue_keys share the type token have emission
\* times closer than CUE_COOLDOWN_BY_TYPE, even in different zones
C10_SameTypeSpacing ==
    \A p \in Pairs :
        TypeToken(emitted[p[1]].cue_key) = TypeToken(emitted[p[2]].cue_key)
            => Gap(p) >= CUE_COOLDOWN_BY_TYPE

\* a cue type was emitted in one zone and, after the cooldown, in another
C10_Witness ==
    \E p \in Pairs :
        /\ TypeToken(emitted[p[1]].cue_key) = TypeToken(emitted[p[2]].cue_key)
        /\ emitted[p[1]].zone_id # emitted[p[2]].zone_id
        /\ Gap(p) = CUE_COOLDOWN_BY_TYPE

\* dictionary d with key k set to v
Stamped(d, k, v) == [j \in DOMAIN d \cup {k} |-> IF j = k THEN v ELSE d[j]]

\* C11: an ingest call whose candidate cue is dropped by a rate-limit gate
\* changes none of the three cooldown maps; the maps change only when a cue
\* is emitted, and then the entries of its cue_key, its zone_id and its type
\* token are all set to the wall-clock time of the call
C11_DropLeavesCooldowns ==
    [][/\ (op' = "ingest" /\ ev' # None /\ ev'[1].cues # <<>> /\ ret'.kind # "cue")
            => UNCHANGED <<last_cue_time, last_cue_by_zone, last_cue_by_type>>
       /\ (<<last_cue_time, last_cue_by_zone, last_cue_by_type>>'
              # <<last_cue_time, last_cue_by_zone, last_cue_by_type>>)
            => /\ op' = "ingest" /\ ret'.kind = "cue"
               /\ ret'.ts = now'
               /\ last_cue_time' = Stamped(last_cue_time, ret'.cue_key, now')
               /\ last_cue_by_zone' = Stamped(last_cue_by_zone, ret'.zone_id, now')
               /\ last_cue_by_type'
                    = Stamped(last_cue_by_type, <<ret'.cue_key[1]>>, now')
       /\ (op' = "ingest" /\ ret'.kind = "cue")
            => /\ last_cue_time'[ret'.cue_key] = now'
               /\ last_cue_by_zone'[ret'.zone_id] = now'
               /\ last_cue_by_type'[<<ret'.cue_key[1]>>] = now']_vars

\* a candidate was dropped one second after a cue was emitted
C11_Witness ==
    /\ op = "ingest" /\ ev # None /\ ev[1].cues # <<>> /\ ret = NoCue
    /\ emitted # <<>>
    /\ now = emitted[Len(emitted)].ts + 1
    /\ last_cue_time[emitted[Len(emitted)].cue_key] = emitted[Len(emitted)].ts

\* wrap-aware membership of position s in a turn segment
InSegment(s, seg) ==
    IF seg.s_start <= seg.s_end
    THEN seg.s_start <= s /\ s <= seg.s_end
    ELSE s >= seg.s_start \/ s <= seg.s_end

\* position s is within STOP_APPROACH_M ahead of a stop line of the loop
AheadOfStop(s) ==
    \E k \in 1..Len(stop_lines_s) :
        LET d == (stop_lines_s[k].s_stop_m - s) % track.length_m
        IN  0 < d /\ d <= STOP_APPROACH_M

TurnId(i) == CASE i = 1 -> "TURN_1" [] i = 2 -> "TURN_2" [] i = 3 -> "TURN_3"

\* C12: assign_zone_id returns one (zone_type, zone_id) for every position;
\* a position inside a turn segment gets TURN and the id of the first
\* segment (by index) that contains it, even when it is also within the stop
\* approach; otherwise STOP_APPROACH when it is within the stop approach, and
\* STRAIGHT when it is in neither
C12_ZonePriority ==
    (probe # None /\ probe[1].fn = "assign_zone_id" /\ result # None) =>
        LET s == probe[1].s_now
            inside == {i \in 1..Len(probe[1].turns) :
                         InSegment(s, probe[1].turns[i])}
        IN  /\ result[1].zone_type \in {"TURN", "STOP_APPROACH", "STRAIGHT"}
            /\ inside # {} =>
                 \E i \in inside :
                    /\ \A j \in inside : i <= j
                    /\ result[1] = [zone_type |-> "TURN", zone_id |-> TurnId(i)]
            /\ (inside = {} /\ AheadOfStop(s)) =>
                 result[1].zone_type = "STOP_APPROACH"
            /\ (inside = {} /\ ~AheadOfStop(s)) =>
                 result[1] = [zone_type |-> "STRAIGHT", zone_id |-> "STRAIGHT"]

\* a position inside the second turn segment and 60 m before the stop line
C12_Witness ==
    /\ probe # None /\ probe[1].fn = "assign_zone_id" /\ result # None
    /\ probe[1].s_now = 240
    /\ InSegment(240, probe[1].turns[2]) /\ AheadOfStop(240)
    /\ result[1] = [zone_type |-> "TURN", zone_id |-> "TURN_2"]

\* C13: the buffer is sorted by ascending sample timestamp
C13_BufferSorted ==
    \A i \in 1..(Len(buf) - 1) : buf[i].ts <= buf[i + 1].ts

\* the optional number o is present and within [lo, hi]
Usable(o, lo, hi) == o # <<>> /\ lo <= o[1] /\ o[1] <= hi

\* the power of a message after the fallback chain, <<>> if none
PowerResolved(m) ==
    IF Usable(m.power, POWER_MIN_W, POWER_MAX_W) THEN m.power
    ELSE IF /\ Usable(m.voltage, VOLTAGE_MIN_V, VOLTAGE_MAX_V)
            /\ Usable(m.current, CURRENT_MIN_A, CURRENT_MAX_A)
    THEN <<m.voltage[1] * (IF m.current[1] < 0 THEN -m.current[1]
                           ELSE m.current[1])>>
    ELSE <<>>

\* required fields present, speed in range, power resolved and in range
PassesValidation(m) ==
    /\ ~FieldMissing(m)
    /\ Usable(m.speed, SPEED_MIN_KMH * 10, SPEED_MAX_KMH * 10)
    /\ Usable(PowerResolved(m), POWER_MIN_W, POWER_MAX_W)

\* C14: the GPS origin is set by the first sample that passes validation, to
\* that sample's latitude and longitude; once set no ingest call changes it;
\* a sample that validation rejects never sets it.  (The sample is one whose
\* ingest call returns.)
C14_OriginFixed ==
    [][/\ lat0 # None => (lat0' = lat0 /\ lon0' = lon0)
       /\ (lat0 = None) <=> (lon0 = None)
       /\ (lat0 = None /\ lat0' # None)
            => /\ op' = "ingest" /\ msg' # None
               /\ PassesValidation(msg'[1])
               /\ lat0' = msg'[1].latitude /\ lon0' = msg'[1].longitude
       /\ (lat0 = None /\ op' = "ingest" /\ msg' # None
             /\ PassesValidation(msg'[1]) /\ ret'.kind # "raise")
            => (lat0' = msg'[1].latitude /\ lon0' = msg'[1].longitude)
       /\ (op' = "ingest" /\ msg' # None /\ ~PassesValidation(msg'[1]))
            => (lat0' = lat0 /\ lon0' = lon0)]_vars

\* after the origin was set, a valid sample from another longitude was
\* buffered and the origin is still that of the first sample
C14_Witness ==
    /\ op = "ingest" /\ msg # None /\ PassesValidation(msg[1])
    /\ Len(buf) >= 2
    /\ lon0 # None /\ msg[1].longitude # lon0
    /\ ret.kind # "raise"

\* C15: a sample without usable power and with in-range voltage and current
\* is buffered with power (voltage / 1000) * |current|
C15_FallbackPower ==
    [][(/\ op' = "ingest" /\ msg' # None /\ buf' # buf
        /\ ~Usable(msg'[1].power, POWER_MIN_W, POWER_MAX_W)
        /\ Usable(msg'[1].voltage, VOLTAGE_MIN_V, VOLTAGE_MAX_V)
        /\ Usable(msg'[1].current, CURRENT_MIN_A, CURRENT_MAX_A))
          => buf'[Len(buf')].power_w * 1000
               = msg'[1].voltage[1] * (IF msg'[1].current[1] < 0
                                       THEN -msg'[1].current[1]
                                       ELSE msg'[1].current[1])]_vars

\* C16: a sample (required fields present, speed in range) whose power is out
\* of range and whose voltage and current are in range and give an in-range
\* power is buffered with that power; a sample whose power cannot be resolved
\* or is out of range after the fallback, or whose speed is out of range,
\* yields no cue and changes no session state; an out-of-range voltage or
\* current counts as absent
C16_FallbackChain ==
    [][(op' = "ingest" /\ msg' # None) =>
         /\ (/\ ret'.kind # "raise"
             /\ ~FieldMissing(msg'[1])
             /\ Usable(msg'[1].speed, SPEED_MIN_KMH * 10, SPEED_MAX_KMH * 10)
             /\ msg'[1].power # <<>>
             /\ ~Usable(msg'[1].power, POWER_MIN_W, POWER_MAX_W)
             /\ Usable(msg'[1].voltage, VOLTAGE_MIN_V, VOLTAGE_MAX_V)
             /\ Usable(msg'[1].current, CURRENT_MIN_A, CURRENT_MAX_A)
             /\ Usable(PowerResolved(msg'[1]), POWER_MIN_W, POWER_MAX_W))
              => /\ buf' # buf
                 /\ buf'[Len(buf')].power_w = PowerResolved(msg'[1])[1]
         /\ (/\ ~FieldMissing(msg'[1])
             /\ \/ ~Usable(msg'[1].speed, SPEED_MIN_KMH * 10, SPEED_MAX_KMH * 10)
                \/ ~Usable(PowerResolved(msg'[1]), POWER_MIN_W, POWER_MAX_W))
              => (ret'.kind # "cue" /\ UNCHANGED coachVars /\ UNCHANGED emitted)
         /\ (/\ ret'.kind # "raise"
             /\ PassesValidation(msg'[1]))
              => /\ buf' # buf
                 /\ buf'[Len(buf')].power_w = PowerResolved(msg'[1])[1]]_vars

\* a sample with power 6000 W, 40 and 2 for voltage and current was buffered
\* with the recomputed power
C16_Witness ==
    /\ op = "ingest" /\ msg # None
    /\ msg[1].power = <<6000>> /\ msg[1].voltage = <<40>> /\ msg[1].current = <<2>>
    /\ buf # <<>> /\ buf[Len(buf)].power_w = 80
    /\ Len(buf) >= 2

\* C17: project_to_polyline returns an arc length in [0, L)
C17_ArcInRange ==
    (probe # None /\ probe[1].fn = "project_to_polyline" /\ result # None)
        => (0 <= result[1] /\ result[1] < probe[1].trk.length_m)

\* C18 as stated: projecting the coordinates of vertex i returns track.s[i],
\* for every vertex, the last one of the closed loop included
C18_VertexArc ==
    (probe # None /\ probe[1].fn = "project_vertex" /\ result # None)
        => result[1] = probe[1].trk.s[probe[1].i]

\* C18, amended: projecting the coordinates of vertex i returns track.s[i]
\* for every vertex but the closing one; the closing vertex coincides with
\* the first, the first segment is at distance zero and is evaluated first,
\* and the result is 0, which is track.s[i] modulo the track length
C18_VertexArcModLength ==
    (probe # None /\ probe[1].fn = "project_vertex" /\ result # None)
        => /\ result[1] = probe[1].trk.s[probe[1].i] % probe[1].trk.length_m
           /\ probe[1].i < Len(probe[1].trk.x)
                => result[1] = probe[1].trk.s[probe[1].i]
           /\ probe[1].i = Len(probe[1].trk.x) => result[1] = 0

\* the closing vertex was projected
C18_Witness ==
    /\ probe # None /\ probe[1].fn = "project_vertex" /\ result # None
    /\ probe[1].i = Len(probe[1].trk.x)
    /\ probe[1].trk.x[probe[1].i] = probe[1].trk.x[1]
    /\ probe[1].trk.y[probe[1].i] = probe[1].trk.y[1]
    /\ result[1] = 0

\* C19: every evaluation records (drivingState, smoothed speed, smoothed
\* power) for its zone, drivingState being green iff baseState is green or
\* responding is true, whether the call emits a cue, has no candidate, or has
\* its candidate dropped by a gate; a call that returns a cue is an evaluation
C19_StateRecorded ==
    [][/\ (op' = "ingest" /\ ev' # None)
            => /\ ev'[1].zone_id \in DOMAIN last_cue_state'
               /\ ev'[1].zone_id \in DOMAIN last_cue_values'
               /\ last_cue_state'[ev'[1].zone_id] \in {"green", "red"}
               /\ last_cue_state'[ev'[1].zone_id] = "green"
                    <=> (ev'[1].base_state = "green" \/ ev'[1].is_responding)
               /\ last_cue_values'[ev'[1].zone_id]
                    = <<ev'[1].sm_speed, ev'[1].sm_power>>
               /\ ret'.kind = "cue"
                    => /\ ret'.state = last_cue_state'[ev'[1].zone_id]
                       /\ ret'.current_power_w = last_cue_values'[ev'[1].zone_id][2]
       /\ (op' = "ingest" /\ ret'.kind = "cue") => ev' # None
       /\ (/\ op' = "ingest" /\ msg' # None /\ ret'.kind # "raise"
           /\ PassesValidation(msg'[1])
           /\ Len(buf') >= MIN_SAMPLES_FOR_CUE
           /\ last_zone_id' # None
           /\ last_zone_id'[1] \in DOMAIN zone_memory
           /\ zone_memory[last_zone_id'[1]].confidence >= CONFIDENCE_MIN)
            => (ev' # None /\ ev'[1].zone_id = last_zone_id'[1])
       /\ (op' = "ingest" /\ ev' = None)
            => UNCHANGED <<last_cue_state, last_cue_values>>]_vars

\* an evaluation whose candidate was dropped by a gate recorded green for a
\* driver who is responding while still above the thresholds
C19_Witness ==
    /\ op = "ingest" /\ ev # None /\ ev[1].cues # <<>> /\ ret = NoCue
    /\ ev[1].base_state = "red" /\ ev[1].is_responding
    /\ last_cue_state[ev[1].zone_id] = "green"
    /\ last_cue_values[ev[1].zone_id] = <<ev[1].sm_speed, ev[1].sm_power>>

\* C20: an ingest call that leaves fewer than MIN_SAMPLES_FOR_CUE samples in
\* the buffer returns no cue and changes neither the hysteresis memory, nor
\* the per-zone cue state, nor the rate-limit maps
C20_ColdStartGuard ==
    [][(op' = "ingest" /\ Len(buf') < MIN_SAMPLES_FOR_CUE)
          => /\ ret'.kind # "cue"
             /\ ev' = None
             /\ UNCHANGED <<last_zone_id, last_zone_type, last_zone_s,
                            last_cue_state, last_cue_values, last_cue_time,
                            last_cue_by_zone, last_cue_by_type>>]_vars

\* after a telemetry gap longer than the horizon the buffer holds the new
\* sample alone, in a session that has evaluated zones before
C20_Witness ==
    /\ op = "ingest" /\ msg # None /\ ret = NoCue /\ ev = None
    /\ Len(buf) = 1 /\ Len(buf) < MIN_SAMPLES_FOR_CUE
    /\ msg[1].timestamp # None /\ buf[1].ts = msg[1].timestamp[1].v
    /\ last_zone_id # None /\ last_cue_state # EmptyDict

\* the timestamp ingest gives the sample of message m in a call at time t
StampOf(m, t) == IF m.timestamp = <<>> THEN t ELSE m.timestamp[1].v

\* q is what remains of sequence b after removing k elements from its front
FrontRemoved(q, b) == \E k \in 0..Len(b) : q = SubSeq(b, k + 1, Len(b))

\* C21: after every ingest call that accepts a sample the buffer is
\* non-empty and ends with the accepted sample, and that sample's timestamp
\* minus the timestamp of the sample at the front of the queue (the oldest
\* buffered one) does not exceed BUFFER_SECONDS; the new buffer is the old
\* one with the sample appended and samples removed from the front only; a
\* call that accepts nothing leaves the buffer alone
C21_BufferWindow ==
    [][/\ (/\ op' = "ingest" /\ msg' # None /\ ret'.kind # "raise"
           /\ PassesValidation(msg'[1]))
            => /\ buf' # <<>>
               /\ buf'[Len(buf')].ts = StampOf(msg'[1], now')
               /\ buf'[Len(buf')].ts - buf'[1].ts <= BUFFER_SECONDS
               /\ FrontRemoved(buf', Append(buf, buf'[Len(buf')]))
       /\ ~(/\ op' = "ingest" /\ msg' # None /\ ret'.kind # "raise"
            /\ PassesValidation(msg'[1]))
            => buf' = buf]_vars

\* a sample stamped more than BUFFER_SECONDS after two buffered ones was
\* accepted: both were evicted in the same call
C21_Witness ==
    /\ op = "ingest" /\ msg # None /\ PassesValidation(msg[1])
    /\ Len(buf) = 1 /\ buf[1].ts = 125
    /\ ev = None /\ lat0 # None
    /\ last_cue_state # EmptyDict

LowConfidence(z) ==
    z \in DOMAIN zone_memory /\ zone_memory[z].confidence < CONFIDENCE_MIN

\* C23: an ingest call whose sample is placed (after hysteresis) in a zone
\* with zone-memory confidence below CONFIDENCE_MIN returns no cue, whatever
\* the telemetry values, and leaves the per-zone cue state and values and
\* the three rate-limit maps unchanged
C23_LowConfidenceDropped ==
    [][(/\ op' = "ingest" /\ msg' # None /\ ret'.kind # "raise"
        /\ PassesValidation(msg'[1])
        /\ Len(buf') >= MIN_SAMPLES_FOR_CUE
        /\ last_zone_id' # None /\ LowConfidence(last_zone_id'[1]))
          => /\ ret' = NoCue
             /\ emitted' = emitted
             /\ UNCHANGED <<last_cue_state, last_cue_values, last_cue_time,
                            last_cue_by_zone, last_cue_by_type>>]_vars

\* speed and power above their thresholds in the low-confidence zone, in a
\* session that has emitted a cue elsewhere and whose cooldowns have expired
C23_Witness ==
    /\ op = "ingest" /\ msg # None /\ ret = NoCue /\ ev = None
    /\ last_zone_id = <<"STOP_2_APPROACH">>
    /\ LowConfidence("STOP_2_APPROACH")
    /\ Len(buf) >= MIN_SAMPLES_FOR_CUE
    /\ \A i \in (Len(buf) - 1)..Len(buf) :
          buf[i].speed_mps = 300 /\ buf[i].power_w = 140
    /\ emitted # <<>>
    /\ now - emitted[Len(emitted)].ts >= CUE_COOLDOWN_BY_ZONE
    /\ now - emitted[Len(emitted)].ts >= CUE_COOLDOWN_BY_TYPE
    /\ now - emitted[Len(emitted)].ts >= MIN_SECONDS_BETWEEN_SAME_CUE
    /\ "STOP_2_APPROACH" \notin DOMAIN last_cue_state

\* C22: a zone_id that has a recorded state (green or red) keeps one in
\* every later state; a step that does not evaluate that zone leaves its
\* state and values unchanged; so the recorded state and values are always
\* those written by the zone's last evaluation, and an evaluation of a zone
\* visited before, also after samples in other zones, makes its responding
\* check against them
C22_StickyZoneState ==
    [][/\ \A z \in DOMAIN last_cue_state :
            /\ z \in DOMAIN last_cue_state' /\ z \in DOMAIN last_cue_values'
            /\ last_cue_state'[z] \in {"green", "red"}
            /\ ~(op' = "ingest" /\ ev' # None /\ ev'[1].zone_id = z)
                 => /\ last_cue_state'[z] = last_cue_state[z]
                    /\ last_cue_values'[z] = last_cue_values[z]
       /\ DOMAIN hist = DOMAIN last_cue_state
       /\ \A z \in DOMAIN hist :
            /\ last_cue_state[z] = hist[z].state
            /\ last_cue_values[z] = hist[z].values
       /\ (op' = "ingest" /\ ev' # None /\ ev'[1].zone_id \in DOMAIN hist)
            => LET z == ev'[1].zone_id
               IN  /\ ev'[1].last_state = <<hist[z].state>>
                   /\ ev'[1].last_values = <<hist[z].values>>
                   /\ ev'[1].is_responding
                        <=> /\ hist[z].state = "red"
                            /\ \/ ev'[1].base_state = "green"
                               \/ MovedToward(ev'[1].sm_speed, hist[z].values[1],
                                              ev'[1].opt_speed)
                               \/ MovedToward(ev'[1].sm_power, hist[z].values[2],
                                              ev'[1].opt_power)]_vars

\* a zone left in state red is entered again after samples in another zone,
\* and the driver is found responding against the values recorded then
C22_Witness ==
    /\ op = "ingest" /\ ev # None
    /\ ev[1].zone_id \in DOMAIN hist /\ hist[ev[1].zone_id].revisit
    /\ ev[1].last_state = <<"red">>
    /\ ev[1].base_state = "red"
    /\ ev[1].is_responding
    /\ Cardinality(DOMAIN last_cue_state) >= 2

\* C26: isResponding is never true on two consecutive evaluations of the
\* same zone_id, whether or not other zones were visited in between: an
\* evaluation that finds isResponding true records the zone green, and the
\* next evaluation of that zone finds isResponding false and, with a
\* threshold still breached, reports and records state red
C26_NoRespondingTwice ==
    [][(op' = "ingest" /\ ev' # None) =>
         LET z == ev'[1].zone_id
         IN  /\ ev'[1].is_responding => last_cue_state'[z] = "green"
             /\ (z \in DOMAIN hist /\ hist[z].resp)
                  => /\ last_cue_state[z] = "green"
                     /\ ~ev'[1].is_responding
                     /\ ev'[1].base_state = "red"
                          => /\ ev'[1].driving_state = "red"
                             /\ last_cue_state'[z] = "red"
                             /\ ret'.kind = "cue" => ret'.state = "red"]_vars

\* the evaluation after a responding one, reached again after samples in
\* another zone, with a threshold still breached: state red
C26_Witness ==
    /\ op = "ingest" /\ ev # None
    /\ ev[1].zone_id \in DOMAIN hist
    /\ hist[ev[1].zone_id].prev_resp /\ hist[ev[1].zone_id].revisit
    /\ ~ev[1].is_responding
    /\ ev[1].base_state = "red" /\ ev[1].driving_state = "red"
    /\ last_cue_state[ev[1].zone_id] = "red"

\* control payloads whose action, lower-cased and stripped, is "enable"
EnablingActions == {<<"enable">>, <<" ENABLE ">>}

\* the same for "disable"
DisablingActions == {<<"disable">>, <<"Disable">>}

\* C28: the session starts enabled; a control message with action enable
\* (disable) sets it to true (false) whatever its "enabled" key; a control
\* message with another or no action sets it to the truth value of its
\* "enabled" key, and leaves it unchanged when that key is absent too; only
\* control messages change it, and they change nothing of the coach; while
\* it is false no step calls ingest, changes coach state or publishes a cue
C28_SessionGating ==
    [][/\ op = "init" => session_enabled
       /\ session_enabled' # session_enabled => op' = "control"
       /\ op' = "control" =>
            /\ UNCHANGED <<coachVars, emitted>>
            /\ session_enabled' =
                 IF msg'[1].action \in EnablingActions THEN TRUE
                 ELSE IF msg'[1].action \in DisablingActions THEN FALSE
                 ELSE IF msg'[1].enabled = <<>> THEN session_enabled
                 ELSE IF msg'[1].enabled[1].type = "bool"
                 THEN msg'[1].enabled[1].b
                 ELSE IF msg'[1].enabled[1].type = "int"
                 THEN msg'[1].enabled[1].n # 0
                 ELSE msg'[1].enabled[1].s # ""
       /\ ~session_enabled =>
            /\ op' # "ingest"
            /\ UNCHANGED <<coachVars, emitted>>
       /\ (session_enabled /\ op' \notin {"control", "undecodable", "tick"})
            => op' = "ingest"]_vars

\* telemetry with both thresholds breached is ignored while the session is
\* disabled, after the zone cooldown of the last published cue has expired
C28_Witness ==
    /\ op = "ignored" /\ ~session_enabled
    /\ msg # None /\ msg[1].speed = <<1080>> /\ msg[1].power = <<140>>
    /\ Len(buf) >= MIN_SAMPLES_FOR_CUE
    /\ emitted # <<>>
    /\ now - emitted[Len(emitted)].ts >= CUE_COOLDOWN_BY_ZONE

\* C24: with unserialized callers two cues with the same cue_key can be
\* returned less than MIN_SECONDS_BETWEEN_SAME_CUE apart, and only by an
\* interleaving: the gates of the later one were evaluated before the
\* earlier one was stamped (fewer cues had been returned at its gates than
\* precede it).  When every call runs from entry to return, each cue's gates
\* see all the cues before it, and no such pair exists.
C24_RaceNeedsInterleaving ==
    \A p \in Pairs :
        (/\ emitted[p[1]].cue_key = emitted[p[2]].cue_key
         /\ Gap(p) < MIN_SECONDS_BETWEEN_SAME_CUE)
            => emitted[p[2]].gated < p[1]

\* two cues with the same cue_key and the same time, in the same zone: the
\* second was stamped by a call that had passed its gates before the first
\* was stamped
C24_Witness ==
    \E p \in Pairs :
        /\ emitted[p[1]].cue_key = emitted[p[2]].cue_key
        /\ emitted[p[1]].zone_id = emitted[p[2]].zone_id
        /\ Gap(p) < MIN_SECONDS_BETWEEN_SAME_CUE
        /\ emitted[p[2]].gated < p[1]
        /\ op = "stamp" /\ pending = None

\* the cooldown c of key k in map d has elapsed at time t (a key never
\* stamped reads 0.0)
Elapsed(d, k, t, c) == k \notin DOMAIN d \/ t - d[k] >= c

\* the last call dropped its candidate at a gate, and the three cooldowns
\* of that candidate end within the time the model lets pass
Suppressed ==
    /\ op = "ingest" /\ ev # None /\ ev[1].cues # <<>> /\ ret = NoCue
    /\ \A t \in now..(WallClockStart + MaxElapsed) :
          (/\ Elapsed(last_cue_time, ev[1].cues[1], t, MIN_SECONDS_BETWEEN_SAME_CUE)
           /\ Elapsed(last_cue_by_zone, ev[1].zone_id, t, CUE_COOLDOWN_BY_ZONE)
           /\ Elapsed(last_cue_by_type, <<ev[1].cues[1][1]>>, t, CUE_COOLDOWN_BY_TYPE))
             => t > now
    /\ \E t \in now..(WallClockStart + MaxElapsed) :
          /\ Elapsed(last_cue_time, ev[1].cues[1], t, MIN_SECONDS_BETWEEN_SAME_CUE)
          /\ Elapsed(last_cue_by_zone, ev[1].zone_id, t, CUE_COOLDOWN_BY_ZONE)
          /\ Elapsed(last_cue_by_type, <<ev[1].cues[1][1]>>, t, CUE_COOLDOWN_BY_TYPE)

\* a candidate is dropped only while one of its cooldowns has not elapsed
\* (a drop leaves the three maps as the gates read them)
DroppedOnlyInCooldown ==
    (op = "ingest" /\ ev # None /\ ev[1].cues # <<>> /\ ret = NoCue)
        => ~(/\ Elapsed(last_cue_time, ev[1].cues[1], now,
                        MIN_SECONDS_BETWEEN_SAME_CUE)
             /\ Elapsed(last_cue_by_zone, ev[1].zone_id, now,
                        CUE_COOLDOWN_BY_ZONE)
             /\ Elapsed(last_cue_by_type, <<ev[1].cues[1][1]>>, now,
                        CUE_COOLDOWN_BY_TYPE))

\* C25: an evaluation with a candidate cue, made when the cooldowns of its
\* cue_key, its zone and its type have all elapsed since their last stamps,
\* returns that cue; and while the breach persists in a known, confident
\* zone, samples keep arriving and time advances, a dropped candidate is
\* followed by a returned cue
C25_Reattempt ==
    /\ [](DroppedOnlyInCooldown)
    /\ (Suppressed ~> (op = "ingest" /\ ret.kind = "cue"))

\* a second cue for the persisting breach, returned by the first evaluation
\* after the zone cooldown, following dropped candidates
C25_Witness ==
    /\ op = "ingest" /\ ret.kind = "cue"
    /\ Len(emitted) = 2
    /\ emitted[1].cue_key = emitted[2].cue_key
    /\ emitted[1].zone_id = emitted[2].zone_id
    /\ emitted[2].ts = emitted[1].ts + CUE_COOLDOWN_BY_ZONE
    /\ ret.ts = now

====
